---------------------------- MODULE Spec2Model ----------------------------
(***************************************************************************)
(* A model of the ETL pipeline of src/etl/etl.py: column normalisation,    *)
(* feature derivation, row validation (clean_chunk), the batched MySQL     *)
(* load (insert_rows_mysql) and the chunk loop of main().                  *)
(*                                                                         *)
(* Numbers.  A pandas/NumPy float is modelled as a record                  *)
(*   [k |-> "fin", n |-> numerator, d |-> denominator > 0]  (lowest terms) *)
(*   [k |-> "inf", n |-> 1 or -1, d |-> 1]                  (+inf, -inf)   *)
(*   [k |-> "nan", n |-> 0, d |-> 1]                        (NaN and None) *)
(* Finite arithmetic is exact rational arithmetic (the rounding of IEEE    *)
(* doubles is not modelled); the non-finite cases follow IEEE 754.         *)
(* pd.isna is true of NaN, None and NaT alike, so the one "nan" value      *)
(* stands for all missing values of a numeric column.                      *)
(***************************************************************************)
EXTENDS Integers, Sequences, FiniteSets, TLC

---------------------------------------------------------------------------
(* The state of a run of main(), and what outlives a run: the destination  *)
(* table and the file cleaning_log.csv                                     *)

VARIABLES
    input_header,          \* the column names of the input file
    input_rows,         \* its rows, in file order
    chunksize,       \* args.chunksize
    batch_size,      \* args.batch_size
    pc,              \* where the run is
    pos,             \* the number of rows read_csv has handed over
    chunk_index,
    chunk,           \* the rows of the chunk being processed
    clean_rows,
    excluded_rows,
    i,               \* the offset of the sub-batch insert_rows_mysql is at
    count,           \* insert_rows_mysql's count
    pending,         \* rows sent in the open transaction, not committed
    committed,       \* rows of the table written by this run
    log,             \* the rows of cleaning_log.csv written by this run
    total_in,
    total_clean,
    total_excluded,
    err,             \* the exception that ended the run, "none" while there is none
    create_table,    \* args.create_table
    table,           \* the destination table: whether it exists, and its columns
    stored,          \* rows of the table written by earlier runs
    cleaning_log,    \* the file cleaning_log.csv: whether it exists, and its lines
    run              \* the number of this run of main()

vars ==
    <<input_header, input_rows, chunksize, batch_size, pc, pos, chunk_index, chunk, clean_rows,
      excluded_rows, i, count, pending, committed, log, total_in, total_clean,
      total_excluded, err, create_table, table, stored, cleaning_log, run>>

\* what the steps of the chunk loop leave alone
setup == <<create_table, table, stored, run>>

inputs == <<input_header, input_rows, chunksize, batch_size>>

---------------------------------------------------------------------------
(* Floating point values *)

Abs(x) == IF x < 0 THEN -x ELSE x

RECURSIVE Gcd(_, _)
Gcd(a, b) == IF b = 0 THEN a ELSE Gcd(b, a % b)

NaN == [k |-> "nan", n |-> 0, d |-> 1]
PosInf == [k |-> "inf", n |-> 1, d |-> 1]
NegInf == [k |-> "inf", n |-> -1, d |-> 1]

\* the float n/d (d # 0), in lowest terms with a positive denominator
Rat(n, d) ==
    LET g == Gcd(Abs(n), Abs(d))
        s == IF d < 0 THEN -1 ELSE 1
    IN  [k |-> "fin", n |-> (s * n) \div g, d |-> (s * d) \div g]

Num(z) == Rat(z, 1)

IsNaN(x) == x.k = "nan"
IsFin(x) == x.k = "fin"
IsInf(x) == x.k = "inf"

\* -1, 0, 1 for a value that is not NaN
Sign(x) == IF x.n < 0 THEN -1 ELSE IF x.n > 0 THEN 1 ELSE 0

\* x < y of two floats: False whenever an operand is NaN
Less(x, y) ==
    /\ ~IsNaN(x)
    /\ ~IsNaN(y)
    /\ IF IsInf(x) THEN x.n < 0 /\ ~(IsInf(y) /\ y.n < 0)
       ELSE IF IsInf(y) THEN y.n > 0
       ELSE x.n * y.d < y.n * x.d

Leq(x, y) == ~IsNaN(x) /\ ~IsNaN(y) /\ ~Less(y, x)

\* x + y
Add(x, y) ==
    IF IsNaN(x) \/ IsNaN(y) THEN NaN
    ELSE IF IsInf(x) THEN (IF IsInf(y) /\ y.n # x.n THEN NaN ELSE x)
    ELSE IF IsInf(y) THEN y
    ELSE Rat(x.n * y.d + y.n * x.d, x.d * y.d)

\* x * y
Mul(x, y) ==
    IF IsNaN(x) \/ IsNaN(y) THEN NaN
    ELSE IF IsInf(x) \/ IsInf(y)
         THEN (IF Sign(x) * Sign(y) = 0 THEN NaN
               ELSE IF Sign(x) * Sign(y) > 0 THEN PosInf ELSE NegInf)
    ELSE Rat(x.n * y.n, x.d * y.d)

\* x / y of two floats with y # 0 (NumPy/Python float division)
Div(x, y) ==
    IF IsNaN(x) \/ IsNaN(y) THEN NaN
    ELSE IF IsInf(x)
         THEN (IF IsInf(y) THEN NaN
               ELSE IF Sign(x) * Sign(y) > 0 THEN PosInf ELSE NegInf)
    ELSE IF IsInf(y) THEN Num(0)
    ELSE Rat(x.n * y.d, x.d * y.n)

---------------------------------------------------------------------------
(* Timestamps: seconds since 2016-01-01 00:00:00 (a Friday), or NaT *)

NaT == [k |-> "nat", t |-> 0]
Ts(t) == [k |-> "ts", t |-> t]

DayNames == <<"Friday", "Saturday", "Sunday", "Monday", "Tuesday", "Wednesday", "Thursday">>

None == [k |-> "none"]
Str(s) == [k |-> "str", s |-> s]

\* pd.isna: NaN, None and NaT
IsNa(v) == v.k \in {"nan", "nat", "none"}

\* Timestamp.strftime("%Y-%m-%d %H:%M:%S"): the day (counted from 2016-01-01)
\* and the time of day, to the second
Strftime(ts) ==
    [k |-> "datestr", day |-> ts.t \div 86400, hh |-> (ts.t \div 3600) % 24,
     mi |-> (ts.t \div 60) % 60, ss |-> ts.t % 60]

---------------------------------------------------------------------------
(* The input file: a header of column names and rows of cells.  A cell is *)
(* what read_csv hands over: a number (inf included), a timestamp string,  *)
(* an empty cell or some other text.  Timestamp columns of the inputs hold *)
(* timestamp strings, empty cells or text; numeric columns hold any cell.  *)

NumCell(x) == [k |-> "num", x |-> x, t |-> 0]
TimeCell(t) == [k |-> "time", x |-> NaN, t |-> t]
EmptyCell == [k |-> "empty", x |-> NaN, t |-> 0]
TextCell == [k |-> "text", x |-> NaN, t |-> 0]

\* pd.to_numeric(col, errors="coerce")
ToNumeric(cell) == IF cell.k = "num" THEN cell.x ELSE NaN

\* pd.to_datetime(col, errors="coerce") of a timestamp string, an empty cell or text
ToDatetime(cell) ==
    CASE cell.k = "time" -> Ts(cell.t)
      [] cell.k \in {"empty", "text"} -> NaT

\* int(x) of a finite float: truncation towards zero
Trunc(x) == IF x.n >= 0 THEN Num(x.n \div x.d) ELSE Num(-((-x.n) \div x.d))

\* Series.astype(str) of a vendor cell
AsStr(cell) ==
    CASE cell.k = "num" /\ IsFin(cell.x) /\ cell.x.d = 1 ->
             Str(CASE cell.x.n = 1 -> "1" [] cell.x.n = 2 -> "2" [] OTHER -> "int")
      [] cell.k = "empty" -> Str("nan")
      [] OTHER -> Str("text")

\* c.strip().lower() of the column names the inputs use
normalize_name(c) ==
    CASE c = " Fare_Amount" -> "fare_amount"
      [] c = "Trip_Distance " -> "trip_distance"
      [] c = "Pickup_Datetime" -> "pickup_datetime"
      [] c = "Pickup_Time" -> "pickup_time"
      [] OTHER -> c

\* A data frame: its column names and its rows, each row a function from the
\* column names to values
Frame(cols, rs) == [cols |-> cols, rows |-> rs]

normalize_columns(df) ==
    LET raw == df.cols
        new == {normalize_name(c) : c \in raw}
        Src(c) == CHOOSE r \in raw : normalize_name(r) = c
    IN  Frame(new, [idx \in 1..Len(df.rows) |-> [c \in new |-> df.rows[idx][Src(c)]]] \o << >>)

\* df[name] = vals, a value for every row
SetCol(df, name, vals) ==
    Frame(df.cols \cup {name},
          [idx \in 1..Len(df.rows) |-> (name :> vals[idx]) @@ df.rows[idx]] \o << >>)

\* row.get(c, default)
Get(row, c, default) == IF c \in DOMAIN row THEN row[c] ELSE default

PickupAliases == <<"tpep_pickup_datetime", "pickup_datetime", "pickup_time", "pickup_ts">>
DropoffAliases == <<"tpep_dropoff_datetime", "dropoff_datetime", "dropoff_time", "dropoff_ts">>
PickupLonAliases == <<"pickup_longitude", "pickup_lon", "pickup_long">>
PickupLatAliases == <<"pickup_latitude", "pickup_lat", "pickup_latitude_decimal">>
DropoffLonAliases == <<"dropoff_longitude", "dropoff_lon", "dropoff_long">>
DropoffLatAliases == <<"dropoff_latitude", "dropoff_lat", "dropoff_latitude_decimal">>
DistanceAliases == <<"trip_distance", "distance", "tripdistance">>
FareAliases == <<"fare_amount", "fare", "fareamount">>
TipAliases == <<"tip_amount", "tip", "tipamount">>

\* the position of the last alias that is a column of df
LastAlias(aliases, cols) ==
    IF \E j \in 1..Len(aliases) : aliases[j] \in cols
    THEN CHOOSE j \in 1..Len(aliases) :
            /\ aliases[j] \in cols
            /\ \A m \in (j + 1)..Len(aliases) : aliases[m] \notin cols
    ELSE 0

\* the position of the first alias that is a column of df, 0 when there is none
FirstAlias(aliases, cols) ==
    IF \E j \in 1..Len(aliases) : aliases[j] \in cols
    THEN CHOOSE j \in 1..Len(aliases) :
            /\ aliases[j] \in cols
            /\ \A m \in 1..(j - 1) : aliases[m] \notin cols
    ELSE 0

\* for c in aliases: if c in df.columns: df[target] = pd.to_datetime(df[c]); break
AssignDatetime(df, target, aliases) ==
    LET j == FirstAlias(aliases, df.cols)
        Conv(row) == ToDatetime(row[aliases[j]])
    IN  IF j = 0 THEN df ELSE SetCol(df, target, [idx \in 1..Len(df.rows) |-> Conv(df.rows[idx])])

\* for c in aliases: if c in df.columns: df[target] = pd.to_numeric(df[c]); break
AssignNumeric(df, target, aliases) ==
    LET j == FirstAlias(aliases, df.cols)
        Conv(row) == ToNumeric(row[aliases[j]])
    IN  IF j = 0 THEN df ELSE SetCol(df, target, [idx \in 1..Len(df.rows) |-> Conv(df.rows[idx])])

---------------------------------------------------------------------------
(* detect_and_assign_columns *)

\* lines 100-104
AssignDistance(df) == AssignNumeric(df, "trip_distance_km", DistanceAliases)

RECURSIVE SumSeq(_)
SumSeq(s) == IF s = << >> THEN Num(0) ELSE Add(Head(s), SumSeq(Tail(s)))

\* Series.mean() of a non-empty series without NaN
Mean(s) == Div(SumSeq(s), Num(Len(s)))

\* the number of values of s strictly below s[idx], ties broken by position
Rank(s, idx) ==
    Cardinality({j \in 1..Len(s) : Less(s[j], s[idx]) \/ (s[j] = s[idx] /\ j < idx)})

\* s in ascending order
Sorted(s) == [p \in 1..Len(s) |-> s[CHOOSE idx \in 1..Len(s) : Rank(s, idx) = p - 1]]

\* Series.median() of a non-empty series without NaN
Median(s) ==
    LET o == Sorted(s)
        n == Len(s)
    IN  IF n % 2 = 1 THEN o[(n + 1) \div 2]
        ELSE Div(Add(o[n \div 2], o[n \div 2 + 1]), Num(2))

\* df[c].dropna() as a sequence, in row order
RECURSIVE DropNa(_, _)
DropNa(rs, c) ==
    IF rs = << >> THEN << >>
    ELSE (IF IsNa(Head(rs)[c]) THEN << >> ELSE <<Head(rs)[c]>>) \o DropNa(Tail(rs), c)

MilesToKm == Rat(160934, 100000)

\* the test on the mean alone
LooksLikeMilesMeanOnly(s) == Len(s) > 0 /\ Less(Mean(s), Num(200))

\* len(s) > 0 and s.mean() < 200 and s.median() < 30
LooksLikeMiles(s) == Len(s) > 0 /\ Less(Mean(s), Num(200)) /\ Less(Median(s), Num(30))

\* the miles-to-km step, decided once for the whole file
ConvertUnitsFileWide(df) ==
    LET ToKm(row) == Mul(row["trip_distance_km"], MilesToKm)
        file == AssignDistance(normalize_columns(Frame(input_header, input_rows)))
    IN  IF "trip_distance_km" \in df.cols /\ LooksLikeMiles(DropNa(file.rows, "trip_distance_km"))
        THEN SetCol(df, "trip_distance_km", [idx \in 1..Len(df.rows) |-> ToKm(df.rows[idx])])
        ELSE df

\* the miles-to-km step
ConvertUnits(df) ==
    LET ToKm(row) == Mul(row["trip_distance_km"], MilesToKm)
    IN  IF "trip_distance_km" \in df.cols /\ LooksLikeMiles(DropNa(df.rows, "trip_distance_km"))
        THEN SetCol(df, "trip_distance_km", [idx \in 1..Len(df.rows) |-> ToKm(df.rows[idx])])
        ELSE df

\* the tip column and its default
AssignTip(df) ==
    LET d == AssignNumeric(df, "tip_amount", TipAliases)
    IN  IF "tip_amount" \in d.cols THEN d
        ELSE SetCol(d, "tip_amount", [idx \in 1..Len(d.rows) |-> Num(0)])

\* pd.to_numeric(...).fillna(1).astype(int), or the default 1
AssignPassengers(df) ==
    LET Conv(row) == LET v == ToNumeric(row["passenger_count"])
                     IN  IF IsNaN(v) THEN Num(1) ELSE Trunc(v)
    IN  IF "passenger_count" \in df.cols
        THEN SetCol(df, "passenger_count", [idx \in 1..Len(df.rows) |-> Conv(df.rows[idx])])
        ELSE SetCol(df, "passenger_count", [idx \in 1..Len(df.rows) |-> Num(1)])

\* astype(int) raises on a non-finite passenger count
PassengersRaise(df) ==
    /\ "passenger_count" \in df.cols
    /\ \E idx \in 1..Len(df.rows) : IsInf(ToNumeric(df.rows[idx]["passenger_count"]))

AssignVendor(df) ==
    IF "vendor_id" \in df.cols
    THEN SetCol(df, "vendor_code", [idx \in 1..Len(df.rows) |-> AsStr(df.rows[idx]["vendor_id"])])
    ELSE IF "vendor" \in df.cols
    THEN SetCol(df, "vendor_code", [idx \in 1..Len(df.rows) |-> AsStr(df.rows[idx]["vendor"])])
    ELSE SetCol(df, "vendor_code", [idx \in 1..Len(df.rows) |-> None])

\* lines 72-80
AssignTimestamps(df) ==
    AssignDatetime(AssignDatetime(df, "pickup_datetime", PickupAliases),
                   "dropoff_datetime", DropoffAliases)

\* lines 82-98
AssignCoordinates(df) ==
    AssignNumeric(
        AssignNumeric(
            AssignNumeric(
                AssignNumeric(df, "pickup_lon", PickupLonAliases),
                "pickup_lat", PickupLatAliases),
            "dropoff_lon", DropoffLonAliases),
        "dropoff_lat", DropoffLatAliases)

\* lines 106-110
AssignFare(df) == AssignNumeric(df, "fare_amount", FareAliases)

detect_and_assign_columns(raw) ==
    ConvertUnits(
        AssignVendor(
            AssignPassengers(
                AssignTip(
                    AssignFare(AssignDistance(
                        AssignCoordinates(
                            AssignTimestamps(
                                normalize_columns(raw)))))))))

---------------------------------------------------------------------------
(* clean_chunk: derived features *)

MIN_LAT == Rat(404, 10)
MAX_LAT == Rat(4095, 100)
MIN_LON == Rat(-7435, 100)
MAX_LON == Rat(-737, 10)

\* the bounds of latitude and longitude taken for each other
is_valid_coordinate_swapped(lat, lon) ==
    IF IsNa(lat) \/ IsNa(lon) THEN FALSE
    ELSE Leq(MIN_LON, lat) /\ Leq(lat, MAX_LON) /\ Leq(MIN_LAT, lon) /\ Leq(lon, MAX_LAT)

is_valid_coordinate(lat, lon) ==
    IF IsNa(lat) \/ IsNa(lon) THEN FALSE
    ELSE Leq(MIN_LAT, lat) /\ Leq(lat, MAX_LAT) /\ Leq(MIN_LON, lon) /\ Leq(lon, MAX_LON)

safe_div(a, b) ==
    IF b.k = "none" THEN NaN
    ELSE IF IsNa(a) \/ IsNa(b) THEN NaN
    ELSE IF IsFin(b) /\ b.n = 0 THEN NaN
    ELSE Div(a, b)

\* (dropoff - pickup).dt.total_seconds()
TotalSeconds(pu, do) == IF IsNa(pu) \/ IsNa(do) THEN NaN ELSE Num(do.t - pu.t)

AssignDuration(df) ==
    LET Dur(row) == TotalSeconds(row["pickup_datetime"], row["dropoff_datetime"])
        Missing(row) == NaN
    IN  IF "pickup_datetime" \in df.cols /\ "dropoff_datetime" \in df.cols
        THEN SetCol(df, "trip_duration_seconds", [idx \in 1..Len(df.rows) |-> Dur(df.rows[idx])])
        ELSE SetCol(df, "trip_duration_seconds",
                    [idx \in 1..Len(df.rows) |-> Missing(df.rows[idx])])

compute_speed(row) ==
    IF "trip_distance_km" \notin DOMAIN row THEN NaN
    ELSE LET td == row["trip_duration_seconds"]
             dist == row["trip_distance_km"]
         IN  IF IsNa(td) \/ Leq(td, Num(0)) \/ IsNa(dist) \/ Leq(dist, Num(0)) THEN NaN
             ELSE Div(dist, Div(td, Num(3600)))

\* x / y of two float columns: division by zero gives inf or NaN
ColumnDiv(x, y) ==
    IF IsNaN(x) \/ IsNaN(y) THEN NaN
    ELSE IF IsFin(y) /\ y.n = 0
         THEN (IF Sign(x) = 0 THEN NaN ELSE IF Sign(x) > 0 THEN PosInf ELSE NegInf)
    ELSE Div(x, y)

\* df["fare_amount"] / df["trip_distance_km"], without safe_div
fare_per_km_unsafe(row) ==
    ColumnDiv(Get(row, "fare_amount", NaN), Get(row, "trip_distance_km", NaN))

fare_per_km(row) == safe_div(Get(row, "fare_amount", NaN), Get(row, "trip_distance_km", NaN))

\* the operands of the tip fraction taken for each other
tip_pct_swapped(row) == safe_div(Get(row, "fare_amount", NaN), Get(row, "tip_amount", Num(0)))

tip_pct(row) == safe_div(Get(row, "tip_amount", Num(0)), Get(row, "fare_amount", NaN))

hour_of_day(row) ==
    LET p == row["pickup_datetime"]
    IN  IF IsNa(p) THEN None ELSE Num((p.t \div 3600) % 24)

day_of_week(row) ==
    LET p == row["pickup_datetime"]
    IN  IF IsNa(p) THEN None ELSE Str(DayNames[((p.t \div 86400) % 7) + 1])

\* lines 167-168 index df["pickup_datetime"]: a KeyError when no alias matched
DeriveRaises(df) == "pickup_datetime" \notin df.cols

\* lines 164-168
WithSpeed(df) ==
    SetCol(df, "trip_speed_kmh", [idx \in 1..Len(df.rows) |-> compute_speed(df.rows[idx])])

WithFarePerKm(df) ==
    SetCol(df, "fare_per_km", [idx \in 1..Len(df.rows) |-> fare_per_km(df.rows[idx])])

WithTipPct(df) ==
    SetCol(df, "tip_pct", [idx \in 1..Len(df.rows) |-> tip_pct(df.rows[idx])])

WithHourOfDay(df) ==
    SetCol(df, "hour_of_day", [idx \in 1..Len(df.rows) |-> hour_of_day(df.rows[idx])])

WithDayOfWeek(df) ==
    SetCol(df, "day_of_week", [idx \in 1..Len(df.rows) |-> day_of_week(df.rows[idx])])

AssignFeatures(df) == WithDayOfWeek(WithHourOfDay(WithTipPct(WithFarePerKm(WithSpeed(df)))))

\* the frame after lines 144-168, when nothing was raised
Derive(raw) == AssignFeatures(AssignDuration(detect_and_assign_columns(raw)))

---------------------------------------------------------------------------
(* clean_chunk: validation and the split into clean and excluded rows *)

CANONICAL_COLS ==
    <<"pickup_datetime", "dropoff_datetime",
      "pickup_lat", "pickup_lon", "dropoff_lat", "dropoff_lon",
      "passenger_count", "trip_distance_km", "trip_duration_seconds",
      "fare_amount", "tip_amount", "trip_speed_kmh", "fare_per_km",
      "tip_pct", "hour_of_day", "day_of_week", "vendor_code">>

CanonicalNames == {CANONICAL_COLS[j] : j \in 1..Len(CANONICAL_COLS)}

NumericCols ==
    {"pickup_lat", "pickup_lon", "dropoff_lat", "dropoff_lon",
     "passenger_count", "trip_distance_km", "trip_duration_seconds",
     "fare_amount", "tip_amount", "trip_speed_kmh", "fare_per_km", "tip_pct", "hour_of_day"}

Tag(cond, tag) == IF cond THEN <<tag>> ELSE << >>

\* lines 177-181
TimestampReasons(row) ==
    IF IsNa(Get(row, "pickup_datetime", None)) \/ IsNa(Get(row, "dropoff_datetime", None))
    THEN <<"missing_timestamps">>
    ELSE Tag(row["dropoff_datetime"].t < row["pickup_datetime"].t, "dropoff_before_pickup")

\* lines 200-202
SpeedReasons(row) ==
    LET speed == Get(row, "trip_speed_kmh", None)
    IN  Tag(speed.k # "none" /\ ~IsNa(speed) /\ IsFin(speed) /\ Less(Num(200), speed),
            "unrealistic_speed")

\* lines 184-187
CoordReasons(row) ==
    Tag(~is_valid_coordinate(Get(row, "pickup_lat", None), Get(row, "pickup_lon", None)),
        "invalid_pickup_coord")
    \o Tag(~is_valid_coordinate(Get(row, "dropoff_lat", None), Get(row, "dropoff_lon", None)),
           "invalid_dropoff_coord")

\* lines 190-197
\* the rules on the measures with a duration rejected only when negative
MeasureReasonsNegativeOnly(row) ==
    Tag(IsNa(Get(row, "trip_distance_km", None))
           \/ Less(Get(row, "trip_distance_km", None), Num(0)),
        "invalid_distance")
    \o Tag(IsNa(Get(row, "trip_duration_seconds", None))
              \/ Less(Get(row, "trip_duration_seconds", None), Num(0)),
           "invalid_duration")
    \o Tag(IsNa(Get(row, "fare_amount", None)) \/ Less(Get(row, "fare_amount", None), Num(0)),
           "invalid_fare")

MeasureReasons(row) ==
    Tag(IsNa(Get(row, "trip_distance_km", None))
           \/ Less(Get(row, "trip_distance_km", None), Num(0)),
        "invalid_distance")
    \o Tag(IsNa(Get(row, "trip_duration_seconds", None))
              \/ Leq(Get(row, "trip_duration_seconds", None), Num(0)),
           "invalid_duration")
    \o Tag(IsNa(Get(row, "fare_amount", None)) \/ Less(Get(row, "fare_amount", None), Num(0)),
           "invalid_fare")

\* a validator that stops at the first group of failing rules
ReasonsShortCircuit(row) ==
    IF TimestampReasons(row) \o CoordReasons(row) # << >>
    THEN TimestampReasons(row) \o CoordReasons(row)
    ELSE MeasureReasons(row) \o SpeedReasons(row)

\* the list reasons of one row, in the order the tags are appended; the
\* reason string is this list joined by ";"
Reasons(row) ==
    TimestampReasons(row) \o CoordReasons(row) \o MeasureReasons(row) \o SpeedReasons(row)

\* lines 206-224: the canonical record of an accepted row
Canonical(row) ==
    [c \in CanonicalNames |->
        LET v == Get(row, c, None)
        IN  IF c \in {"pickup_datetime", "dropoff_datetime"}
            THEN (IF IsNa(v) THEN None ELSE Strftime(v))
            ELSE IF c \in NumericCols THEN (IF IsNa(v) THEN None ELSE v)
            ELSE v]

RECURSIVE SelectClean(_)
SelectClean(rs) ==
    IF rs = << >> THEN << >>
    ELSE (IF Reasons(Head(rs)) = << >> THEN <<Canonical(Head(rs))>> ELSE << >>)
         \o SelectClean(Tail(rs))

\* an exclusion list with one entry for each reason of a rejected row
RECURSIVE SelectExcludedPerReason(_)
SelectExcludedPerReason(rs) ==
    IF rs = << >> THEN << >>
    ELSE LET r == Reasons(Head(rs))
         IN  [j \in 1..Len(r) |-> [reasons |-> r]] \o SelectExcludedPerReason(Tail(rs))

RECURSIVE SelectExcluded(_)
SelectExcluded(rs) ==
    IF rs = << >> THEN << >>
    ELSE LET r == Reasons(Head(rs))
         IN  (IF r = << >> THEN << >> ELSE <<[reasons |-> r]>>) \o SelectExcluded(Tail(rs))

\* what clean_chunk raises on this chunk ("none" when it returns)
CleanError(raw) ==
    LET d == normalize_columns(raw)
    IN  IF PassengersRaise(d) THEN "ValueError"
        ELSE IF DeriveRaises(detect_and_assign_columns(raw)) THEN "KeyError"
        ELSE "none"

\* clean_chunk(df): the pair it returns, or the exception it raises
clean_chunk(raw) ==
    LET e == CleanError(raw)
    IN  IF e # "none"
        THEN [error |-> e, clean_rows |-> << >>, excluded_rows |-> << >>]
        ELSE LET df == Derive(raw)
             IN  [error |-> "none",
                  clean_rows |-> SelectClean(df.rows),
                  excluded_rows |-> SelectExcluded(df.rows)]

---------------------------------------------------------------------------
(* insert_rows_mysql *)

\* lines 268-271: the columns the INSERT statement names, in its order
InsertColumns == CANONICAL_COLS

\* the values bound in the order of the table's columns, vendor_code first
BindValuesTableOrder(r) ==
    [j \in 1..Len(CANONICAL_COLS) |->
        Get(r, CANONICAL_COLS[((j + Len(CANONICAL_COLS) - 2) % Len(CANONICAL_COLS)) + 1], None)]

\* tuple(r.get(c) for c in cols): the values bound to the INSERT's placeholders
BindValues(r) == [j \in 1..Len(CANONICAL_COLS) |-> Get(r, CANONICAL_COLS[j], None)]

Min(a, b) == IF a < b THEN a ELSE b

\* rows[i:i + batch_size] (the offset counted from 0)
Slice(rs, idx, size) == SubSeq(rs, idx + 1, Min(idx + size, Len(rs)))

\* sub-batches cut as rows[i:i + batch_size + 1], one row too long
BatchValuesInclusive(rs, idx, size) ==
    LET b == SubSeq(rs, idx + 1, Min(idx + size + 1, Len(rs)))
    IN  [j \in 1..Len(b) |-> BindValues(b[j])]

\* vals of the sub-batch at offset idx
BatchValues(rs, idx, size) ==
    LET b == Slice(rs, idx, size) IN [j \in 1..Len(b) |-> BindValues(b[j])]

---------------------------------------------------------------------------
(* The inputs of the model *)

MaxRows == 3
MaxBatch == 2
MaxChunkRows == 2

StdHeader ==
    {"tpep_pickup_datetime", "tpep_dropoff_datetime", "pickup_longitude", "pickup_latitude",
     "dropoff_longitude", "dropoff_latitude", "trip_distance", "fare_amount", "tip_amount",
     "passenger_count", "vendor_id"}

\* no column that is an alias of the pickup timestamp
NoPickupHeader == StdHeader \ {"tpep_pickup_datetime"}

\* no column that is an alias of the dropoff timestamp
NoDropoffHeader == StdHeader \ {"tpep_dropoff_datetime"}

\* no tip column, and names that need trimming and lower-casing
VariantHeader ==
    (StdHeader \ {"tip_amount", "fare_amount", "trip_distance", "tpep_pickup_datetime"})
        \cup {" Fare_Amount", "Trip_Distance ", "Pickup_Datetime"}

\* several aliases of one field at once, the later ones holding other values:
\* no first or second alias of the pickup timestamp but a third and a fourth
AliasHeader ==
    (StdHeader \ {"tpep_pickup_datetime", "fare_amount"})
        \cup {"Pickup_Time", "pickup_ts", "dropoff_time", "pickup_lon", "pickup_lat",
              "distance", " Fare_Amount", "fare", "tip", "vendor"}

\* what a column of the input files holds
Field(c) ==
    CASE c \in {"tpep_pickup_datetime", "Pickup_Datetime", "Pickup_Time", "dropoff_time"} -> "pu"
      [] c \in {"tpep_dropoff_datetime", "pickup_ts"} -> "do"
      [] c = "pickup_longitude" -> "plon"
      [] c = "pickup_latitude" -> "plat"
      [] c \in {"dropoff_longitude", "pickup_lon"} -> "dlon"
      [] c \in {"dropoff_latitude", "pickup_lat"} -> "dlat"
      [] c \in {"trip_distance", "Trip_Distance ", "tip"} -> "dist"
      [] c \in {"fare_amount", " Fare_Amount", "distance"} -> "fare"
      [] c \in {"tip_amount", "fare"} -> "tip"
      [] c \in {"passenger_count", "vendor"} -> "pass"
      [] c = "vendor_id" -> "vendor"

\* the file row of a trip under a header
RowOf(hdr, trip) == [c \in hdr |-> trip[Field(c)]]

\* (a) 2016-01-01 08:00:00 to 08:15:00, 5 miles, fare 15, tip 3, in Manhattan
TripA ==
    [pu |-> TimeCell(28800), do |-> TimeCell(29700),
     plon |-> NumCell(Rat(-7398, 100)), plat |-> NumCell(Rat(4075, 100)),
     dlon |-> NumCell(Rat(-7395, 100)), dlat |-> NumCell(Rat(4078, 100)),
     dist |-> NumCell(Num(5)), fare |-> NumCell(Num(15)), tip |-> NumCell(Num(3)),
     pass |-> NumCell(Num(2)), vendor |-> NumCell(Num(1))]

\* (b) as (a), the dropoff ten minutes before the pickup
TripB == [TripA EXCEPT !.do = TimeCell(28200)]
\* (c) as (a), picked up at (0, 0)
TripC == [TripA EXCEPT !.plon = NumCell(Num(0)), !.plat = NumCell(Num(0))]
\* 40 units in 15 minutes: 160 an hour as read, 257.5 after the conversion
TripFar == [TripA EXCEPT !.dist = NumCell(Num(40))]
\* 1000 units in 10 hours
TripLong == [TripA EXCEPT !.dist = NumCell(Num(1000)), !.do = TimeCell(64800)]
TripInfFare == [TripA EXCEPT !.fare = NumCell(PosInf)]

RunTrips == {TripA, TripB, TripC, TripFar, TripLong}

CleanTrips ==
    RunTrips \cup
    {TripInfFare,
     [TripA EXCEPT !.pu = EmptyCell],
     [TripA EXCEPT !.pu = TextCell],
     [TripA EXCEPT !.do = EmptyCell],
     [TripA EXCEPT !.do = TimeCell(28800)],
     [TripA EXCEPT !.dlat = NumCell(Rat(41, 1))],
     [TripA EXCEPT !.plon = EmptyCell, !.fare = NumCell(Num(-1))],
     [TripA EXCEPT !.plat = NumCell(Num(0)), !.fare = NumCell(Num(-1))],
     [TripA EXCEPT !.dist = NumCell(Num(0))],
     [TripA EXCEPT !.dist = NumCell(Num(-1))],
     [TripA EXCEPT !.dist = TextCell],
     [TripA EXCEPT !.dist = NumCell(PosInf)],
     [TripA EXCEPT !.dist = NumCell(NegInf)],
     [TripA EXCEPT !.dist = NumCell(Num(300))],
     [TripA EXCEPT !.fare = EmptyCell],
     [TripA EXCEPT !.fare = NumCell(Num(0))],
     [TripA EXCEPT !.tip = NumCell(PosInf)],
     [TripA EXCEPT !.tip = EmptyCell, !.pass = EmptyCell, !.vendor = EmptyCell],
     [TripA EXCEPT !.fare = NumCell(PosInf), !.tip = NumCell(PosInf)],
     [TripA EXCEPT !.pass = NumCell(PosInf)]}

\* the sequences of at most n elements of S
RECURSIVE SeqsUpTo(_, _)
SeqsUpTo(S, n) ==
    IF n = 0 THEN {<< >>}
    ELSE LET shorter == SeqsUpTo(S, n - 1)
         IN  shorter \cup {Append(q, x) : q \in {r \in shorter : Len(r) = n - 1}, x \in S}

---------------------------------------------------------------------------
(* main() *)

\* csv.writer writes a number as its decimal digits
Digits == <<"0", "1", "2", "3", "4", "5", "6", "7", "8", "9">>

RECURSIVE Text(_)
Text(n) == IF n < 10 THEN <<Digits[n + 1]>> ELSE Text(n \div 10) \o <<Digits[(n % 10) + 1]>>

\* line 333: the header line; a field of a line is a sequence of texts
LogHeader == << <<"chunk_index">>, <<"excluded_count">>, <<"sample_reason">> >>

\* a file that does not exist, and the file holding these lines
NoFile == [exists |-> FALSE, lines |-> << >>]
File(lines) == [exists |-> TRUE, lines |-> lines]

\* a log that is opened for writing on every run
EnsureLogHeaderTruncating(f) == File(<<LogHeader>>)

\* lines 330-333: the header is written when the file does not exist
EnsureLogHeader(f) == IF f.exists THEN f ELSE File(<<LogHeader>>)

\* lines 347-350: one line appended, the numbers as text
AppendLine(f, row) == File(f.lines \o << <<Text(row[1]), Text(row[2]), row[3]>> >>)

\* a destination without the table, and the table of lines 235-257
NoTable == [exists |-> FALSE, columns |-> << >>]

TripsTable ==
    [exists |-> TRUE,
     columns |-> <<"id", "vendor_code", "pickup_datetime", "dropoff_datetime",
                   "pickup_lat", "pickup_lon", "dropoff_lat", "dropoff_lon",
                   "passenger_count", "trip_distance_km", "trip_duration_seconds",
                   "fare_amount", "tip_amount", "trip_speed_kmh", "fare_per_km",
                   "tip_pct", "hour_of_day", "day_of_week">>]

\* a table of that name made by something else, without the derived columns
LegacyTable ==
    [exists |-> TRUE,
     columns |-> <<"id", "vendor_code", "pickup_datetime", "dropoff_datetime",
                   "pickup_lat", "pickup_lon", "dropoff_lat", "dropoff_lon",
                   "passenger_count", "fare_amount", "tip_amount">>]

\* DROP TABLE IF EXISTS followed by CREATE TABLE
recreate_table_mysql(t) == TripsTable

\* CREATE TABLE IF NOT EXISTS: a table that is there is left as it is
create_table_if_not_exists_mysql(t) == IF t.exists THEN t ELSE TripsTable

RunState ==
    /\ pos = 0
    /\ chunk_index = 0
    /\ clean_rows = << >>
    /\ excluded_rows = << >>
    /\ i = 0
    /\ count = 0
    /\ pending = << >>
    /\ committed = << >>
    /\ log = << >>
    /\ total_in = 0
    /\ total_clean = 0
    /\ total_excluded = 0
    /\ err = "none"

\* a first run over a file of at most MaxRows rows, at the chunk loop: the
\* table was created and the log file was given its header
Init ==
    /\ input_header \in {StdHeader, NoPickupHeader}
    /\ \E trips \in SeqsUpTo(RunTrips, MaxRows) :
          input_rows = [j \in 1..Len(trips) |-> RowOf(input_header, trips[j])]
    /\ chunksize \in 1..MaxRows
    /\ batch_size \in 1..MaxBatch
    /\ chunk = << >>
    /\ pc = "read"
    /\ RunState
    /\ create_table = TRUE
    /\ table = TripsTable
    /\ stored = << >>
    /\ cleaning_log = File(<<LogHeader>>)
    /\ run = 1

\* lines 320-322: create_table_if_not_exists_mysql, with --create-table
EnsureSchema ==
    /\ pc = "start"
    /\ create_table
    /\ table' = create_table_if_not_exists_mysql(table)
    /\ pc' = "open"
    /\ UNCHANGED <<inputs, create_table, stored, run, pos, chunk_index, chunk, clean_rows,
                   excluded_rows, i, count, pending, committed, log, cleaning_log,
                   total_in, total_clean, total_excluded, err>>

\* lines 324-335: the totals, and the log file with its header
OpenLog ==
    /\ pc = "open" \/ (pc = "start" /\ ~create_table)
    /\ cleaning_log' = EnsureLogHeader(cleaning_log)
    /\ total_in' = 0
    /\ total_clean' = 0
    /\ total_excluded' = 0
    /\ chunk_index' = 0
    /\ pc' = "read"
    /\ UNCHANGED <<inputs, setup, pos, chunk, clean_rows, excluded_rows, i, count, pending,
                   committed, log, err>>

\* line 336: the next chunk of the file
ReadChunk ==
    /\ pc = "read"
    /\ pos < Len(input_rows)
    /\ chunk' = Slice(input_rows, pos, chunksize)
    /\ pos' = pos + Len(chunk')
    /\ chunk_index' = chunk_index + 1
    /\ total_in' = total_in + Len(chunk')
    /\ pc' = "clean"
    /\ UNCHANGED <<inputs, setup, clean_rows, excluded_rows, i, count, pending, committed,
                   log, cleaning_log, total_clean, total_excluded, err>>

\* lines 354-359: the file is exhausted
Finish ==
    /\ pc = "read"
    /\ pos = Len(input_rows)
    /\ pc' = "done"
    /\ UNCHANGED <<inputs, setup, pos, chunk_index, chunk, clean_rows, excluded_rows, i,
                   count, pending, committed, log, cleaning_log, total_in, total_clean,
                   total_excluded, err>>

\* line 340, clean_chunk returns
CleanReturn ==
    /\ pc = "clean"
    /\ LET r == clean_chunk(Frame(input_header, chunk))
       IN  /\ r.error = "none"
           /\ clean_rows' = r.clean_rows
           /\ excluded_rows' = r.excluded_rows
    /\ i' = 0
    /\ count' = 0
    /\ pc' = "insert"
    /\ UNCHANGED <<inputs, setup, pos, chunk_index, chunk, pending, committed, log,
                   cleaning_log, total_in, total_clean, total_excluded, err>>

\* line 340, clean_chunk raises: nothing in main() catches it
CleanRaise ==
    /\ pc = "clean"
    /\ LET r == clean_chunk(Frame(input_header, chunk))
       IN  /\ r.error # "none"
           /\ err' = r.error
    /\ pc' = "aborted"
    /\ UNCHANGED <<inputs, setup, pos, chunk_index, chunk, clean_rows, excluded_rows, i,
                   count, pending, committed, log, cleaning_log, total_in, total_clean,
                   total_excluded>>

\* a log row whose sample is the reason string of the last rejected row
LogRowLast ==
    <<chunk_index, Len(excluded_rows),
      IF excluded_rows # << >> THEN excluded_rows[Len(excluded_rows)].reasons ELSE << >> >>

\* lines 342-350: the totals and the log row of the chunk
LogRow == <<chunk_index, Len(excluded_rows),
            IF excluded_rows # << >> THEN excluded_rows[1].reasons ELSE << >> >>

Account(inserted) ==
    /\ total_clean' = total_clean + inserted
    /\ total_excluded' = total_excluded + Len(excluded_rows)
    /\ log' = Append(log, LogRow)
    /\ cleaning_log' = AppendLine(cleaning_log, LogRow)
    /\ pc' = "read"

\* lines 266-267 and 342-350: nothing to insert
InsertNothing ==
    /\ pc = "insert"
    /\ clean_rows = << >>
    /\ Account(0)
    /\ UNCHANGED <<inputs, setup, pos, chunk_index, chunk, clean_rows, excluded_rows, i,
                   count, pending, committed, total_in, err>>

\* lines 276-280: cur.executemany of one sub-batch; the statement names the
\* columns of CANONICAL_COLS and fails on a table that lacks one
ExecuteMany ==
    /\ pc = "insert"
    /\ i < Len(clean_rows)
    /\ \A j \in 1..Len(InsertColumns) :
          \E k \in 1..Len(table.columns) : table.columns[k] = InsertColumns[j]
    /\ pending' = BatchValues(clean_rows, i, batch_size)
    /\ pc' = "commit"
    /\ UNCHANGED <<inputs, setup, pos, chunk_index, chunk, clean_rows, excluded_rows, i,
                   count, committed, log, cleaning_log, total_in, total_clean,
                   total_excluded, err>>

\* a loop that catches the error and goes on with the next sub-batch
AfterSinkErrorSkip == "insert"

\* where the run goes when a call of the sink raised: nothing catches it
AfterSinkError == "aborted"

\* with autocommit on, the rows sent before the failure stay in the table
FailedExecuteAutocommit(sent) == committed \o sent

\* what the table holds after executemany failed having sent the rows sent:
\* the connection has autocommit=False and is dropped without a commit
FailedExecute(sent) == committed

\* line 280 raises, having sent some of the rows: the exception leaves main()
ExecuteFail ==
    /\ pc = "insert"
    /\ i < Len(clean_rows)
    /\ \E n \in 0..(Len(BatchValues(clean_rows, i, batch_size)) - 1) :
          LET sent == SubSeq(BatchValues(clean_rows, i, batch_size), 1, n)
          IN  /\ pending' = sent
              /\ committed' = FailedExecute(sent)
    /\ err' = "sink"
    /\ pc' = AfterSinkError
    /\ UNCHANGED <<inputs, setup, pos, chunk_index, chunk, clean_rows, excluded_rows, i,
                   count, log, cleaning_log, total_in, total_clean, total_excluded>>

\* lines 281-282: conn.commit()
Commit ==
    /\ pc = "commit"
    /\ committed' = committed \o pending
    /\ pending' = << >>
    /\ count' = count + Len(pending)
    /\ i' = i + batch_size
    /\ pc' = "insert"
    /\ UNCHANGED <<inputs, setup, pos, chunk_index, chunk, clean_rows, excluded_rows, log,
                   cleaning_log, total_in, total_clean, total_excluded, err>>

\* line 281 raises: the transaction is not committed
CommitFail ==
    /\ pc = "commit"
    /\ err' = "sink"
    /\ pc' = AfterSinkError
    /\ i' = IF AfterSinkError = "aborted" THEN i ELSE i + batch_size
    /\ pending' = IF AfterSinkError = "aborted" THEN pending ELSE << >>
    /\ UNCHANGED <<inputs, setup, pos, chunk_index, chunk, clean_rows, excluded_rows,
                   count, committed, log, cleaning_log, total_in, total_clean,
                   total_excluded>>

\* an insert that may return, and the chunk be logged, with sub-batches left
InsertReturnEarly ==
    /\ pc = "insert"
    /\ clean_rows # << >>
    /\ Account(count)
    /\ UNCHANGED <<inputs, setup, pos, chunk_index, chunk, clean_rows, excluded_rows, i,
                   count, pending, committed, total_in, err>>

\* lines 283-284 and 342-350: the loop is over
InsertReturn ==
    /\ pc = "insert"
    /\ clean_rows # << >>
    /\ i >= Len(clean_rows)
    /\ Account(count)
    /\ UNCHANGED <<inputs, setup, pos, chunk_index, chunk, clean_rows, excluded_rows, i,
                   count, pending, committed, total_in, err>>

Next ==
    \/ ReadChunk
    \/ Finish
    \/ CleanReturn
    \/ CleanRaise
    \/ InsertNothing
    \/ ExecuteMany
    \/ ExecuteFail
    \/ Commit
    \/ CommitFail
    \/ InsertReturn

Spec == Init /\ [][Next]_vars

---------------------------------------------------------------------------
(* main() run again and again on one file, from its first line on *)

MaxRuns == 2

RunsTrips == {TripA, TripB, TripC}

InitRuns ==
    /\ input_header \in {StdHeader, NoPickupHeader}
    /\ \E trips \in SeqsUpTo(RunsTrips, MaxChunkRows) :
          input_rows = [j \in 1..Len(trips) |-> RowOf(input_header, trips[j])]
    /\ chunksize \in 1..MaxChunkRows
    /\ batch_size \in 1..MaxBatch
    /\ chunk = << >>
    /\ pc = "start"
    /\ RunState
    /\ create_table \in BOOLEAN
    /\ table \in {NoTable, TripsTable, LegacyTable}
    /\ stored = << >>
    /\ cleaning_log = NoFile
    /\ run = 1

\* main() is started again after a run that ended; the table and the log
\* file are what that run left
NewRun ==
    /\ pc \in {"done", "aborted"}
    /\ run < MaxRuns
    /\ run' = run + 1
    /\ create_table' \in BOOLEAN
    /\ stored' = stored \o committed
    /\ pc' = "start"
    /\ chunk' = << >>
    /\ pos' = 0
    /\ chunk_index' = 0
    /\ clean_rows' = << >>
    /\ excluded_rows' = << >>
    /\ i' = 0
    /\ count' = 0
    /\ pending' = << >>
    /\ committed' = << >>
    /\ log' = << >>
    /\ total_in' = 0
    /\ total_clean' = 0
    /\ total_excluded' = 0
    /\ err' = "none"
    /\ UNCHANGED <<inputs, table, cleaning_log>>

NextRuns ==
    \/ EnsureSchema
    \/ OpenLog
    \/ Next
    \/ NewRun

SpecRuns == InitRuns /\ [][NextRuns]_vars

---------------------------------------------------------------------------
(* clean_chunk on one chunk, over a wider range of rows *)

InitClean ==
    /\ input_header \in {StdHeader, NoPickupHeader, NoDropoffHeader, VariantHeader,
                         AliasHeader}
    /\ \E trips \in SeqsUpTo(CleanTrips, MaxChunkRows) :
          /\ trips # << >>
          /\ chunk = [j \in 1..Len(trips) |-> RowOf(input_header, trips[j])]
    /\ input_rows = chunk
    /\ chunksize = MaxChunkRows
    /\ batch_size = 1
    /\ pc = "clean"
    /\ RunState
    /\ create_table = TRUE
    /\ table = TripsTable
    /\ stored = << >>
    /\ cleaning_log = File(<<LogHeader>>)
    /\ run = 1

NextClean == CleanReturn \/ CleanRaise

SpecClean == InitClean /\ [][NextClean]_vars

---------------------------------------------------------------------------
(* Properties *)

Range(q) == {q[j] : j \in 1..Len(q)}

\* how often x occurs in the sequence q
Count(q, x) == Cardinality({j \in 1..Len(q) : q[j] = x})

\* clean_chunk returns on every chunk of the file
FileCleans == CleanError(Frame(input_header, input_rows)) = "none"

\* the rows of the file from position p on after normalisation and
\* derivation, the file read cs rows at a time
RECURSIVE DerivedFrom(_, _)
DerivedFrom(cs, p) ==
    IF p >= Len(input_rows) THEN << >>
    ELSE Derive(Frame(input_header, Slice(input_rows, p, cs))).rows \o DerivedFrom(cs, p + cs)

DerivedFile(cs) == DerivedFrom(cs, 0)

\* the rows of the current chunk after normalisation and derivation
DerivedChunk == Derive(Frame(input_header, chunk)).rows

InBox(lat, lon) ==
    /\ IsFin(lat) /\ IsFin(lon)
    /\ 404 * lat.d <= 10 * lat.n /\ 100 * lat.n <= 4095 * lat.d
    /\ -7435 * lon.d <= 100 * lon.n /\ 10 * lon.n <= -737 * lon.d

\* the rows C1 is about: timestamps present and ordered, coordinates in the
\* box, distance and duration positive, fare not negative, speed at most 200
WellFormed(r) ==
    /\ r["pickup_datetime"].k = "ts" /\ r["dropoff_datetime"].k = "ts"
    /\ r["dropoff_datetime"].t >= r["pickup_datetime"].t
    /\ InBox(r["pickup_lat"], r["pickup_lon"])
    /\ InBox(r["dropoff_lat"], r["dropoff_lon"])
    /\ Less(Num(0), r["trip_distance_km"])
    /\ Less(Num(0), r["trip_duration_seconds"])
    /\ Leq(Num(0), r["fare_amount"])
    /\ Leq(r["trip_speed_kmh"], Num(200))

\* the 17 values the sink is to receive for a derived row
Expected(r) == BindValues(Canonical(r))

\* C1: every well-formed row of a chunk is in clean_rows as often as it is in
\* the chunk, and when the run has completed it is in the table as often as
\* it is in the file, as 17 values with none of the trip's own fields null
C1_WellFormedRowsLoadedOnce ==
    /\ (pc \in {"insert", "commit"}) =>
          LET D == DerivedChunk
          IN  \A j \in 1..Len(chunk) :
                 WellFormed(D[j]) => Count(clean_rows, Canonical(D[j])) = Count(D, D[j])
    /\ (pc = "done" /\ FileCleans) =>
          LET D == DerivedFile(chunksize)
          IN  \A j \in 1..Len(input_rows) :
                 WellFormed(D[j]) =>
                    /\ Count(committed, Expected(D[j])) = Count(D, D[j])
                    /\ Len(Expected(D[j])) = 17
                    /\ \A f \in 1..16 : Expected(D[j])[f] # None

C1_Witness ==
    /\ pc = "done"
    /\ Len(input_rows) = 3
    /\ chunksize = 2
    /\ input_rows[1] = input_rows[3]
    /\ LET D == DerivedFile(chunksize)
       IN  /\ WellFormed(D[1])
           /\ WellFormed(D[3])
           /\ D[1] # D[3]
           /\ Count(committed, Expected(D[1])) = 1
           /\ Count(committed, Expected(D[3])) = 1

\* a file row without a pickup timestamp: no pickup column, or a cell of it
\* that is no timestamp
LacksPickup(row) ==
    ~ \E c \in DOMAIN row :
         /\ normalize_name(c) \in Range(PickupAliases)
         /\ row[c].k = "time"

\* C2 (as claimed): once a chunk has gone through clean_chunk, each of its
\* rows without a pickup timestamp has an entry of excluded_rows with
\* missing_timestamps, and clean_rows holds only the other rows
C2_MissingPickupRejected ==
    (pc \notin {"read", "clean"} \/ (pc = "read" /\ chunk_index > 0)) =>
       /\ Cardinality({e \in 1..Len(excluded_rows) :
                          "missing_timestamps" \in Range(excluded_rows[e].reasons)})
             >= Cardinality({j \in 1..Len(chunk) : LacksPickup(chunk[j])})
       /\ Len(clean_rows) <= Cardinality({j \in 1..Len(chunk) : ~LacksPickup(chunk[j])})

\* None when the column is absent
Val(r, c) == Get(r, c, None)

\* the rules of the validator's table that hold of a derived row
TableTags(r) ==
    {t \in {"missing_timestamps", "dropoff_before_pickup", "invalid_pickup_coord",
            "invalid_dropoff_coord", "invalid_distance", "invalid_duration",
            "invalid_fare", "unrealistic_speed"} :
        CASE t = "missing_timestamps" ->
                 IsNa(Val(r, "pickup_datetime")) \/ IsNa(Val(r, "dropoff_datetime"))
          [] t = "dropoff_before_pickup" ->
                 /\ ~IsNa(Val(r, "pickup_datetime"))
                 /\ ~IsNa(Val(r, "dropoff_datetime"))
                 /\ r["dropoff_datetime"].t < r["pickup_datetime"].t
          [] t = "invalid_pickup_coord" -> ~InBox(Val(r, "pickup_lat"), Val(r, "pickup_lon"))
          [] t = "invalid_dropoff_coord" -> ~InBox(Val(r, "dropoff_lat"), Val(r, "dropoff_lon"))
          [] t = "invalid_distance" ->
                 IsNa(Val(r, "trip_distance_km")) \/ Less(r["trip_distance_km"], Num(0))
          [] t = "invalid_duration" ->
                 IsNa(Val(r, "trip_duration_seconds")) \/ Leq(r["trip_duration_seconds"], Num(0))
          [] t = "invalid_fare" ->
                 IsNa(Val(r, "fare_amount")) \/ Less(r["fare_amount"], Num(0))
          [] t = "unrealistic_speed" ->
                 IsFin(Val(r, "trip_speed_kmh")) /\ Less(Num(200), r["trip_speed_kmh"])}

\* the positions of the rows of D with (rejected) or without a rule that holds
RECURSIVE Positions(_, _, _)
Positions(D, j, rejected) ==
    IF j > Len(D) THEN << >>
    ELSE (IF (TableTags(D[j]) # {}) = rejected THEN <<j>> ELSE << >>)
         \o Positions(D, j + 1, rejected)

\* C3: the reasons of every rejected row are exactly the rules of the table
\* that hold of it, each once, and the rows with no such rule are the
\* accepted ones (clean_chunk on any chunk it returns on)
C3_AllApplicableReasons ==
    (pc = "insert") =>
       LET D == DerivedChunk
           rej == Positions(D, 1, TRUE)
           acc == Positions(D, 1, FALSE)
       IN  /\ Len(excluded_rows) = Len(rej)
           /\ \A e \in 1..Len(rej) :
                 /\ Range(excluded_rows[e].reasons) = TableTags(D[rej[e]])
                 /\ Len(excluded_rows[e].reasons) = Cardinality(TableTags(D[rej[e]]))
           /\ Len(clean_rows) = Len(acc)
           /\ \A a \in 1..Len(acc) : clean_rows[a] = Canonical(D[acc[a]])

C3_Witness ==
    /\ pc = "insert"
    /\ clean_rows # << >>
    /\ \E e \in 1..Len(excluded_rows) :
          {"invalid_pickup_coord", "invalid_fare"} \subseteq Range(excluded_rows[e].reasons)

\* the distance a file row holds, as a number (NaN when it holds none)
RawDistance(row) ==
    IF \E c \in DOMAIN row : normalize_name(c) \in Range(DistanceAliases)
    THEN ToNumeric(row[CHOOSE c \in DOMAIN row : normalize_name(c) \in Range(DistanceAliases)])
    ELSE NaN

RECURSIVE NonNull(_)
NonNull(q) ==
    IF q = << >> THEN << >>
    ELSE (IF IsNaN(Head(q)) THEN << >> ELSE <<Head(q)>>) \o NonNull(Tail(q))

\* the non-null distances of a chunk of file rows
ChunkDistances(ch) == NonNull([j \in 1..Len(ch) |-> RawDistance(ch[j])])

\* the unit heuristic as the specification states it: mean < 200 and median < 30
SaidMiles(ch) ==
    LET d == ChunkDistances(ch)
    IN  Len(d) > 0 /\ Less(Mean(d), Num(200)) /\ Less(Median(d), Num(30))

\* the chunk that holds file row j when the file is read cs rows at a time
ChunkOf(cs, j) == Slice(input_rows, ((j - 1) \div cs) * cs, cs)

\* what becomes of a derived row: its reasons, and its record when accepted
Fate(r) == [reasons |-> Reasons(r), record |-> IF Reasons(r) = << >> THEN Canonical(r) ELSE None]

FileFates(cs) ==
    LET D == DerivedFile(cs) IN [j \in 1..Len(input_rows) |-> Fate(D[j])] \o << >>

\* the fates of the rows of the file under each chunk size
AllFates == [cs \in 1..MaxRows |-> FileFates(cs)] \o << >>

AtStart == pc = "read" /\ pos = 0 /\ chunk_index = 0

C5_UnitHeuristicPerChunk ==
    (pc = "clean") =>
       LET d == ChunkDistances(chunk)
           D == detect_and_assign_columns(Frame(input_header, chunk)).rows
       IN  /\ (Len(d) > 0 /\ Less(Mean(d), Num(200)) /\ Less(Median(d), Num(30))) =>
                 \A j \in 1..Len(chunk) :
                    D[j]["trip_distance_km"] = Mul(RawDistance(chunk[j]), Rat(160934, 100000))
           /\ (Len(d) > 0 /\ (Leq(Num(200), Mean(d)) \/ Leq(Num(30), Median(d)))) =>
                 \A j \in 1..Len(chunk) : D[j]["trip_distance_km"] = RawDistance(chunk[j])

\* a second chunk that is converted after a first one that was not, its
\* median being >= 30 with a mean < 200
C5_Witness ==
    /\ pc = "clean"
    /\ chunk_index = 2
    /\ SaidMiles(chunk)
    /\ LET first == ChunkDistances(ChunkOf(chunksize, 1))
       IN  Less(Mean(first), Num(200)) /\ Leq(Num(30), Median(first))
    /\ detect_and_assign_columns(
          Frame(input_header, ChunkOf(chunksize, 1))).rows[1]["trip_distance_km"]
          = RawDistance(input_rows[1])
    /\ detect_and_assign_columns(Frame(input_header, chunk)).rows[1]["trip_distance_km"]
          = Mul(RawDistance(chunk[1]), Rat(160934, 100000))

\* C6 (as claimed): in every record handed to the sink, trip_speed_kmh,
\* fare_per_km and tip_pct are each null or a finite number
C6_NoNonFiniteStored ==
    \A a \in 1..Len(clean_rows) :
       \A f \in {"trip_speed_kmh", "fare_per_km", "tip_pct"} :
          clean_rows[a][f] = None \/ IsFin(clean_rows[a][f])

\* C7: clean_chunk returns on chunks with rows of distance 0, and every such
\* row, rejected or accepted, has a null fare_per_km
C7_ZeroDistanceNoFarePerKm ==
    (pc = "insert") =>
       /\ \A r \in Range(DerivedChunk) :
             r["trip_distance_km"] = Num(0) => IsNa(r["fare_per_km"])
       /\ \A rec \in Range(clean_rows) :
             rec["trip_distance_km"] = Num(0) => rec["fare_per_km"] = None

C7_Witness ==
    /\ pc = "insert"
    /\ \E rec \in Range(clean_rows) :
          /\ rec["trip_distance_km"] = Num(0)
          /\ rec["fare_amount"] = Num(15)
          /\ rec["fare_per_km"] = None

\* the place of a canonical field among the values bound to an INSERT
Place(c) == CHOOSE j \in 1..Len(CANONICAL_COLS) : CANONICAL_COLS[j] = c

\* the three rows of the end-to-end scenario, in some order, read as one chunk
Scenario ==
    /\ input_header = StdHeader
    /\ Len(input_rows) = 3
    /\ Range(input_rows)
          = {RowOf(StdHeader, TripA), RowOf(StdHeader, TripB), RowOf(StdHeader, TripC)}
    /\ chunksize = 3

ScenarioCounts ==
    /\ Len(committed) = 1
    /\ committed[1][Place("tip_pct")] = Rat(2, 10)
    /\ committed[1][Place("hour_of_day")] = Num(8)
    /\ total_clean = 1
    /\ total_excluded = 2
    /\ Len(log) = 1
    /\ log[1][1] = 1
    /\ log[1][2] = 2

\* row (b) comes before row (c) in the file
BFirst ==
    \E m, n \in 1..3 :
       /\ m < n
       /\ input_rows[m] = RowOf(StdHeader, TripB)
       /\ input_rows[n] = RowOf(StdHeader, TripC)

\* C8 (as claimed): the scenario ends with one row loaded, two excluded and a
\* log row whose sample reason is dropoff_before_pickup or
\* invalid_pickup_coord;invalid_dropoff_coord
C8_ScenarioAsClaimed ==
    (pc = "done" /\ Scenario) =>
       /\ ScenarioCounts
       /\ log[1][3] \in {<<"dropoff_before_pickup">>,
                         <<"invalid_pickup_coord", "invalid_dropoff_coord">>}

\* C8 (amended): the sample reason is the whole reason string of the first
\* rejected row: dropoff_before_pickup;invalid_duration when (b) comes before
\* (c), invalid_pickup_coord when (c) comes before (b)
C8_ScenarioSampleReason ==
    (pc = "done" /\ Scenario) =>
       /\ ScenarioCounts
       /\ log[1][3] = IF BFirst THEN <<"dropoff_before_pickup", "invalid_duration">>
                      ELSE <<"invalid_pickup_coord">>

C8_Witness ==
    /\ pc = "done"
    /\ Scenario
    /\ input_rows = <<RowOf(StdHeader, TripA), RowOf(StdHeader, TripB), RowOf(StdHeader, TripC)>>
    /\ log = << <<1, 2, <<"dropoff_before_pickup", "invalid_duration">> >> >>

\* C9: a call of the sink that raises ends the run there: the run is aborted
\* in that very step, and from then on no row is committed, no log row
\* written, no chunk read, no sub-batch begun and the run never completes
C9_SinkFailureAborts ==
    [][/\ (err' = "sink") => (pc' = "aborted")
       /\ (err = "sink") =>
             /\ pc' # "done"
             /\ UNCHANGED <<committed, log, pos, chunk_index, i, count, total_in,
                            total_clean, total_excluded>>]_vars

\* a failed commit with a later sub-batch of the chunk and a later chunk
\* both left undone
C9_Witness ==
    /\ err = "sink"
    /\ pc = "aborted"
    /\ pending # << >>
    /\ i + batch_size < Len(clean_rows)
    /\ pos < Len(input_rows)
    /\ Len(committed) < Len(clean_rows)

\* for each chunk of the file from position p on, the values bound for its
\* accepted records
RECURSIVE AcceptedChunks(_)
AcceptedChunks(p) ==
    IF p >= Len(input_rows) THEN << >>
    ELSE LET c == clean_chunk(Frame(input_header, Slice(input_rows, p, chunksize))).clean_rows
         IN  <<[j \in 1..Len(c) |-> BindValues(c[j])] \o << >> >>
                \o AcceptedChunks(p + chunksize)

RECURSIVE Flatten(_)
Flatten(qs) == IF qs = << >> THEN << >> ELSE Head(qs) \o Flatten(Tail(qs))

\* the numbers of rows at which a sub-batch ends, counted from the start of
\* the run, base rows coming before the chunks qs
RECURSIVE CommitPoints(_, _)
CommitPoints(qs, base) ==
    IF qs = << >> THEN {base}
    ELSE {base + Min(m * batch_size, Len(Head(qs))) : m \in 0..Len(Head(qs))}
            \cup CommitPoints(Tail(qs), base + Len(Head(qs)))

IsPrefix(q, r) == Len(q) <= Len(r) /\ q = SubSeq(r, 1, Len(q))

\* C10: the table always holds a prefix of the run's accepted records that
\* ends where a sub-batch ends, and a step never takes a row out of it
C10_CommittedIsSubBatchPrefix ==
    /\ [](LET plan == AcceptedChunks(0)
          IN  /\ IsPrefix(committed, Flatten(plan))
              /\ Len(committed) \in CommitPoints(plan, 0))
    /\ [][IsPrefix(committed, committed')]_vars

\* an executemany that failed after sending one row of the second sub-batch
C10_Witness ==
    /\ err = "sink"
    /\ pc = "aborted"
    /\ batch_size = 2
    /\ Len(committed) = 2
    /\ Len(pending) = 1
    /\ Len(Flatten(AcceptedChunks(0))) = 3

---------------------------------------------------------------------------
(* The exclusion log *)

\* the positions in the file of the rows of chunk n
ChunkPositions(n) ==
    {j \in 1..Len(input_rows) : (n - 1) * chunksize < j /\ j <= n * chunksize}

\* the positions of the rows of chunk n that some rule of the validator rejects
RejectedIn(n) ==
    LET D == DerivedFile(chunksize)
    IN  {j \in ChunkPositions(n) : Reasons(D[j]) # << >>}

\* the least element of a non-empty set of numbers
Least(S) == CHOOSE x \in S : \A y \in S : x <= y

\* the log row chunk n is to get: its index, the number of its rejected rows,
\* the reasons of the first of them or no reason at all
ExpectedLogRow(n) ==
    LET R == RejectedIn(n)
    IN  <<n, Cardinality(R),
          IF R = {} THEN << >> ELSE Reasons(DerivedFile(chunksize)[Least(R)])>>

\* the chunks this run has processed to the end
Processed == IF pc \in {"start", "open", "read", "done"} THEN chunk_index ELSE chunk_index - 1

\* the last n elements of a sequence
LastN(q, n) == SubSeq(q, Len(q) - n + 1, Len(q))

\* C11: the run has written exactly one log row for each chunk it has
\* processed, in chunk order; the row of chunk n holds n, the number of
\* rejected rows of the chunk and the reason string of the first of them (no
\* reason when there is none); the rows are the last lines of the log file
C11_OneLogRowPerChunk ==
    /\ Len(log) = Processed
    /\ \A n \in 1..Len(log) : log[n] = ExpectedLogRow(n)
    /\ Len(log) > 0 =>
          /\ Len(cleaning_log.lines) >= Len(log)
          /\ LastN(cleaning_log.lines, Len(log))
                = [n \in 1..Len(log) |-> <<Text(log[n][1]), Text(log[n][2]), log[n][3]>>]

\* a second run that has logged a chunk of two rejected rows with different
\* reasons, after a first run that logged it too
C11_Witness ==
    /\ run = 2
    /\ pc = "done"
    /\ log = << <<1, 2, <<"invalid_pickup_coord">> >> >>
    /\ Len(cleaning_log.lines) = 3

\* C12: over any sequence of runs the log file, once there, stays there and
\* changes only by one more line at its end; it comes into being holding the
\* header line alone; so the header is its first line and occurs once
C12_LogAppendOnly ==
    /\ [][/\ cleaning_log.exists =>
                /\ cleaning_log'.exists
                /\ IsPrefix(cleaning_log.lines, cleaning_log'.lines)
                /\ Len(cleaning_log'.lines) <= Len(cleaning_log.lines) + 1
          /\ (~cleaning_log.exists /\ cleaning_log'.exists) =>
                cleaning_log'.lines = <<LogHeader>>]_vars
    /\ [](cleaning_log.exists =>
             /\ cleaning_log.lines[1] = LogHeader
             /\ Count(cleaning_log.lines, LogHeader) = 1)
    /\ [](~cleaning_log.exists => cleaning_log.lines = << >>)

\* a second run at its chunk loop, the rows a first run logged still in the file
C12_Witness ==
    /\ run = 2
    /\ pc = "read"
    /\ pos = 0
    /\ log = << >>
    /\ Len(cleaning_log.lines) = 3

---------------------------------------------------------------------------
(* The order of the steps *)

\* the values bound for the accepted records of the first n chunks of the file
AcceptedUpTo(n) == Flatten(SubSeq(AcceptedChunks(0), 1, n))

\* C13: a chunk is read only when every chunk before it has its accepted
\* records committed and its log row written; the records of a chunk are
\* committed only after clean_chunk has returned them; the log row of a chunk
\* is written only after the insert has gone through all of its records
C13_ChunkStepsInOrder ==
    [][/\ (chunk_index' = chunk_index + 1) =>
             /\ pc = "read"
             /\ Len(log) = chunk_index
             /\ committed = AcceptedUpTo(chunk_index)
       /\ (clean_rows' # clean_rows /\ pc' # "start") =>
             /\ pc = "clean"
             /\ Len(log) = chunk_index - 1
             /\ committed = AcceptedUpTo(chunk_index - 1)
       /\ (committed' # committed /\ pc' # "start") =>
             /\ pc = "commit"
             /\ clean_rows = clean_chunk(Frame(input_header, chunk)).clean_rows
             /\ Len(log) = chunk_index - 1
       /\ (log' # log /\ pc' # "start") =>
             /\ pc = "insert"
             /\ i >= Len(clean_rows)
             /\ committed = AcceptedUpTo(chunk_index)
             /\ log' = Append(log, ExpectedLogRow(chunk_index))]_vars

\* the second chunk has just been read: the accepted record of the first one
\* is in the table and its log row in the log
C13_Witness ==
    /\ pc = "clean"
    /\ chunk_index = 2
    /\ Len(log) = 1
    /\ Len(committed) = 1
    /\ committed = AcceptedUpTo(1)

---------------------------------------------------------------------------
(* The destination table *)

\* C14: create_table_if_not_exists_mysql on a destination that has the table
\* leaves the table's columns and its rows as they are and raises nothing;
\* on a destination without the table it makes the table; doing it twice is
\* doing it once
C14_EnsureSchemaIdempotent ==
    /\ [][(pc = "start" /\ pc' = "open") =>
             /\ table.exists =>
                   /\ table' = table
                   /\ stored' = stored
                   /\ committed' = committed
             /\ ~table.exists => table' = TripsTable
             /\ err' = "none"]_vars
    /\ [](\A t \in {NoTable, TripsTable, LegacyTable, table} :
             create_table_if_not_exists_mysql(create_table_if_not_exists_mysql(t))
                = create_table_if_not_exists_mysql(t))

\* the second run of two with --create-table has ensured the schema again,
\* the table holding what the first run loaded
C14_Witness ==
    /\ run = 2
    /\ pc = "open"
    /\ create_table
    /\ table = TripsTable
    /\ Len(stored) = 2

---------------------------------------------------------------------------
(* tip_pct *)

\* the tip of a derived row, 0 standing in for a tip that is no number
TipOrZero(r) == IF IsNa(Get(r, "tip_amount", None)) THEN Num(0) ELSE r["tip_amount"]

\* C15 (as claimed): the tip_pct of a row is null when its fare_amount is
\* missing or zero and in no other case; otherwise it is the tip, 0 for a
\* tip that is no number, divided by the fare
C15_TipPctNullOnlyForFare ==
    (pc = "insert") =>
       LET D == DerivedChunk
       IN  \A j \in 1..Len(D) :
              LET fare == Get(D[j], "fare_amount", None)
              IN  IF IsNa(fare) \/ (IsFin(fare) /\ fare.n = 0)
                  THEN IsNa(D[j]["tip_pct"])
                  ELSE D[j]["tip_pct"] = Div(TipOrZero(D[j]), fare)

---------------------------------------------------------------------------
(* Column aliases *)

\* the canonical fields that have an alias list, with the list in its order
\* of priority and the kind of value the field holds
AliasTable ==
    <<[target |-> "pickup_datetime", aliases |-> PickupAliases, kind |-> "time"],
      [target |-> "dropoff_datetime", aliases |-> DropoffAliases, kind |-> "time"],
      [target |-> "pickup_lon", aliases |-> PickupLonAliases, kind |-> "number"],
      [target |-> "pickup_lat", aliases |-> PickupLatAliases, kind |-> "number"],
      [target |-> "dropoff_lon", aliases |-> DropoffLonAliases, kind |-> "number"],
      [target |-> "dropoff_lat", aliases |-> DropoffLatAliases, kind |-> "number"],
      [target |-> "trip_distance_km", aliases |-> DistanceAliases, kind |-> "distance"],
      [target |-> "fare_amount", aliases |-> FareAliases, kind |-> "number"],
      [target |-> "tip_amount", aliases |-> TipAliases, kind |-> "number"],
      [target |-> "vendor_code", aliases |-> <<"vendor_id", "vendor">>, kind |-> "text"]>>

\* the positions in the list of the aliases that name a column of the file,
\* the names of the file trimmed and in lower case
PresentAliases(aliases) ==
    {k \in 1..Len(aliases) : \E c \in input_header : normalize_name(c) = aliases[k]}

\* the column of the file the alias names
ColumnNamed(alias) == CHOOSE c \in input_header : normalize_name(c) = alias

\* the values a field of the given kind may take from a cell
ValuesFrom(kind, cell) ==
    CASE kind = "time" -> {ToDatetime(cell)}
      [] kind = "number" -> {ToNumeric(cell)}
      [] kind = "distance" -> {ToNumeric(cell), Mul(ToNumeric(cell), MilesToKm)}
      [] kind = "text" -> {AsStr(cell)}

\* C16: after detect_and_assign_columns, every canonical field one of whose
\* aliases names a column holds, in every row, the value of the cell under
\* the first alias of the list that names a column (a distance possibly
\* converted to km), whatever the columns of the later aliases hold
C16_FirstAliasWins ==
    /\ (pc = "clean" /\ ~PassengersRaise(normalize_columns(Frame(input_header, chunk)))) =>
          LET D == detect_and_assign_columns(Frame(input_header, chunk)).rows
          IN  \A a \in 1..Len(AliasTable) :
                 LET present == PresentAliases(AliasTable[a].aliases)
                 IN  present # {} =>
                        LET c == ColumnNamed(AliasTable[a].aliases[Least(present)])
                        IN  \A j \in 1..Len(chunk) :
                               D[j][AliasTable[a].target]
                                  \in ValuesFrom(AliasTable[a].kind, chunk[j][c])
    /\ (pc = "insert" /\ Len(clean_rows) = Len(chunk)) =>
          LET present == PresentAliases(FareAliases)
          IN  \A j \in 1..Len(chunk) :
                 /\ present # {}
                 /\ clean_rows[j]["fare_amount"]
                       = ToNumeric(chunk[j][ColumnNamed(FareAliases[Least(present)])])

\* a file with a third and a fourth alias of the pickup timestamp and a first
\* and a second alias of the fare, the columns of each pair holding
\* different values: the third and the first are taken
C16_Witness ==
    /\ pc = "insert"
    /\ input_header = AliasHeader
    /\ Len(chunk) = 1
    /\ Len(clean_rows) = 1
    /\ chunk[1]["Pickup_Time"] # chunk[1]["pickup_ts"]
    /\ chunk[1][" Fare_Amount"] # chunk[1]["fare"]
    /\ LET D == detect_and_assign_columns(Frame(input_header, chunk)).rows
       IN  /\ D[1]["pickup_datetime"] = ToDatetime(chunk[1]["Pickup_Time"])
           /\ D[1]["pickup_datetime"] # ToDatetime(chunk[1]["pickup_ts"])
           /\ D[1]["fare_amount"] = ToNumeric(chunk[1][" Fare_Amount"])
    /\ clean_rows[1]["fare_amount"] = ToNumeric(chunk[1][" Fare_Amount"])
    /\ clean_rows[1]["fare_amount"] # ToNumeric(chunk[1]["fare"])

---------------------------------------------------------------------------
(* Exceptions of clean_chunk *)

\* C17 (as claimed): clean_chunk returns on every chunk, whatever columns
\* the file lacks, and no run is ended by an exception of clean_chunk
C17_CleanChunkNeverRaises ==
    /\ (pc = "clean") => clean_chunk(Frame(input_header, chunk)).error = "none"
    /\ err \notin {"KeyError", "ValueError"}

---------------------------------------------------------------------------
(* The records handed to the sink *)

\* C18: every record clean_chunk returns has the 17 canonical fields and no
\* other; the rows of an insert are those of the records of the sub-batch,
\* in order, and the value bound at a position is the record's value of the
\* canonical field of that position, which is the column the INSERT
\* statement names at that position; the table has each of these columns
C18_CanonicalFieldsBoundInOrder ==
    /\ Len(CANONICAL_COLS) = 17
    /\ Cardinality(Range(CANONICAL_COLS)) = 17
    /\ InsertColumns = CANONICAL_COLS
    /\ Range(InsertColumns) \subseteq Range(TripsTable.columns)
    /\ \A k \in 1..Len(clean_rows) : DOMAIN clean_rows[k] = Range(CANONICAL_COLS)
    /\ \A k \in 1..Len(pending) :
          /\ Len(pending[k]) = 17
          /\ \A j \in 1..17 : pending[k][j] = clean_rows[i + k][InsertColumns[j]]
    /\ \A k \in 1..Len(committed) : Len(committed[k]) = 17
    /\ (pc \in {"insert", "commit"}) =>
          \A k \in 1..i :
             k <= Len(clean_rows) =>
                \A j \in 1..17 :
                   committed[Len(committed) - Min(i, Len(clean_rows)) + k][j]
                      = clean_rows[k][InsertColumns[j]]

\* a sub-batch of two records is bound, in the second run
C18_Witness ==
    /\ pc = "commit"
    /\ run = 2
    /\ batch_size = 2
    /\ Len(pending) = 2
    /\ Len(pending[1]) = 17
    /\ pending[1][1] = clean_rows[1]["pickup_datetime"]
    /\ pending[1][2] = clean_rows[1]["dropoff_datetime"]
    /\ pending[1][1] # pending[1][2]
    /\ pending[2][17] = clean_rows[2]["vendor_code"]

---------------------------------------------------------------------------
(* insert_rows_mysql as a whole *)

\* the values bound for the records k of rs with from < k <= to
BoundRange(rs, from, to) == [k \in 1..(to - from) |-> BindValues(rs[from + k])]

\* C19: while insert_rows_mysql runs, the rows it has committed are the first
\* count records of its batch, once each and in order, after the rows that
\* were in the table when it was called; each commit adds one sub-batch of at
\* least one and at most batch_size records, the next ones of the batch;
\* it returns when every record is committed, and returns their number;
\* on an empty batch it returns 0 and the sink is left alone
C19_InsertCommitsBatchOnceInOrder ==
    /\ []((pc \in {"insert", "commit"}) =>
             /\ i % batch_size = 0
             /\ count = Min(i, Len(clean_rows))
             /\ Len(committed) = total_clean + count
             /\ LastN(committed, count) = BoundRange(clean_rows, 0, count)
             /\ (pc = "commit") =>
                   /\ i < Len(clean_rows)
                   /\ Len(pending) \in 1..batch_size)
    /\ [][(pc = "commit" /\ pc' = "insert") =>
             /\ committed' = committed
                   \o BoundRange(clean_rows, i, Min(i + batch_size, Len(clean_rows)))
             /\ i' = i + batch_size]_vars
    /\ [][(pc = "insert" /\ pc' = "read") =>
             /\ total_clean' = total_clean + Len(clean_rows)
             /\ count = Len(clean_rows)
             /\ committed' = committed
             /\ Len(committed) >= Len(clean_rows)
             /\ LastN(committed, Len(clean_rows))
                   = BoundRange(clean_rows, 0, Len(clean_rows))
             /\ (clean_rows = << >>) => (i = 0 /\ pending = << >>)]_vars
    /\ [][(committed' # committed /\ pc' # "start") => pc = "commit"]_vars

\* the call for the second chunk is about to return 1: its record is
\* committed after the two different records of the first chunk, which were
\* committed one by one
C19_Witness ==
    /\ pc = "insert"
    /\ batch_size = 1
    /\ chunk_index = 2
    /\ Len(clean_rows) = 1
    /\ i = 1
    /\ count = 1
    /\ total_clean = 2
    /\ Len(committed) = 3
    /\ committed[1] # committed[2]
    /\ committed[3] = BindValues(clean_rows[1])

---------------------------------------------------------------------------
(* The log and the table *)

\* C20: the log rows of the run are those of its chunks 1, 2, ... in order,
\* and the accepted records of every chunk that has a row are in the table;
\* the chunk being cleaned or loaded, and the chunk at which the run was
\* aborted, has no row, neither in the run's rows nor at the end of the file
C20_LoggedChunksAreCommitted ==
    /\ \A n \in 1..Len(log) :
          /\ log[n][1] = n
          /\ IsPrefix(AcceptedUpTo(n), committed)
    /\ (pc \in {"clean", "insert", "commit"}) => Len(log) = chunk_index - 1
    /\ (pc = "aborted") =>
          /\ Len(log) = chunk_index - 1
          /\ committed # AcceptedUpTo(chunk_index) => clean_rows # << >>
          /\ cleaning_log.exists
          /\ Len(log) > 0 =>
                cleaning_log.lines[Len(cleaning_log.lines)]
                   = <<Text(chunk_index - 1), Text(log[Len(log)][2]), log[Len(log)][3]>>
    /\ Len(log) > 0 => Len(cleaning_log.lines) > Len(log)

\* the commit of the second chunk failed: the first chunk has its record in
\* the table and its row in the log, the second has neither
C20_Witness ==
    /\ pc = "aborted"
    /\ err = "sink"
    /\ chunk_index = 2
    /\ clean_rows # << >>
    /\ Len(log) = 1
    /\ Len(committed) = 1
    /\ committed = AcceptedUpTo(1)
    /\ cleaning_log.lines = <<LogHeader, <<Text(1), Text(0), << >> >> >>

---------------------------------------------------------------------------
(* The totals *)

\* the sum of the excluded counts of these log rows
RECURSIVE SumExcluded(_)
SumExcluded(q) == IF q = << >> THEN 0 ELSE Head(q)[2] + SumExcluded(Tail(q))

\* the positions of the rows of the chunk that have no reason, in the frame
\* clean_chunk validates
AcceptedPositions ==
    LET d == Derive(Frame(input_header, chunk)).rows
    IN  {j \in 1..Len(d) : Reasons(d[j]) = << >>}

\* C21: once clean_chunk has returned, every row of the chunk is in exactly
\* one of its two lists: the accepted list has one record for each row without
\* a reason and the exclusion list one entry for each row with reasons; when
\* no chunk is in progress, and when the run has completed, the rows read are
\* the rows inserted plus the rows excluded; the rows excluded are the sum of
\* the excluded counts of the run's log rows, which are those of the file
C21_AccountingConservation ==
    /\ (pc \in {"insert", "commit"}) =>
          /\ Len(Derive(Frame(input_header, chunk)).rows) = Len(chunk)
          /\ Len(clean_rows) = Cardinality(AcceptedPositions)
          /\ Len(excluded_rows) = Len(chunk) - Cardinality(AcceptedPositions)
          /\ Len(clean_rows) + Len(excluded_rows) = Len(chunk)
          /\ total_in = total_clean + total_excluded + Len(chunk)
    /\ (pc \in {"read", "done"}) =>
          /\ total_in = total_clean + total_excluded
          /\ total_in = pos
          /\ total_clean = Len(committed)
    /\ (pc = "done") => total_in = Len(input_rows)
    /\ total_excluded = SumExcluded(log)
    /\ \A n \in 1..Len(log) :
          cleaning_log.lines[Len(cleaning_log.lines) - Len(log) + n][2] = Text(log[n][2])

\* the second run has completed: of its two rows, read in two chunks, one was
\* inserted and one excluded
C21_Witness ==
    /\ pc = "done"
    /\ run = 2
    /\ chunk_index = 2
    /\ total_in = 2
    /\ total_clean = 1
    /\ total_excluded = 1
    /\ Len(committed) = 1
    /\ SumExcluded(log) = 1

---------------------------------------------------------------------------
(* The reasons on the timestamps and on the duration *)

\* the place in the exclusion list of the row at position j of the frame D
ExcludedPlace(D, j) == Cardinality({m \in 1..j : Reasons(D[m]) # << >>})

\* both timestamps of the row were parsed and they are equal
SameInstant(row) ==
    /\ ~IsNa(Get(row, "pickup_datetime", None))
    /\ ~IsNa(Get(row, "dropoff_datetime", None))
    /\ row["pickup_datetime"].t = row["dropoff_datetime"].t

\* the row breaks no rule on the coordinates, the distance or the fare
ValidBesidesTime(row) ==
    /\ is_valid_coordinate(Get(row, "pickup_lat", None), Get(row, "pickup_lon", None))
    /\ is_valid_coordinate(Get(row, "dropoff_lat", None), Get(row, "dropoff_lon", None))
    /\ ~IsNa(Get(row, "trip_distance_km", None))
    /\ ~Less(Get(row, "trip_distance_km", None), Num(0))
    /\ ~IsNa(Get(row, "fare_amount", None))
    /\ ~Less(Get(row, "fare_amount", None), Num(0))

\* C22: no reason string has both missing_timestamps and
\* dropoff_before_pickup; a reason string with one of them has
\* invalid_duration too; a row whose dropoff is at the instant of its pickup
\* and that breaks no other rule is rejected, its reason string being
\* invalid_duration alone
C22_TimestampAndDurationReasons ==
    (pc = "insert") =>
       /\ \A e \in 1..Len(excluded_rows) :
             LET R == Range(excluded_rows[e].reasons)
             IN  /\ ~("missing_timestamps" \in R /\ "dropoff_before_pickup" \in R)
                 /\ (R \cap {"missing_timestamps", "dropoff_before_pickup"} # {}) =>
                       "invalid_duration" \in R
       /\ LET D == DerivedChunk
          IN  \A j \in 1..Len(D) :
                 (SameInstant(D[j]) /\ ValidBesidesTime(D[j])) =>
                    /\ ExcludedPlace(D, j) \in 1..Len(excluded_rows)
                    /\ Reasons(D[j]) # << >>
                    /\ excluded_rows[ExcludedPlace(D, j)].reasons = <<"invalid_duration">>

\* a file without a dropoff column: each row has missing_timestamps and
\* invalid_duration
C22_NoDropoffColumn ==
    /\ pc = "insert"
    /\ input_header = NoDropoffHeader
    /\ Len(chunk) = 2
    /\ clean_rows = << >>
    /\ Len(excluded_rows) = 2
    /\ excluded_rows[1].reasons = <<"missing_timestamps", "invalid_duration">>

\* a chunk of a row that ends at the instant it begins and a row without a
\* pickup timestamp
C22_Witness ==
    /\ pc = "insert"
    /\ input_header = StdHeader
    /\ Len(chunk) = 2
    /\ SameInstant(DerivedChunk[1])
    /\ ValidBesidesTime(DerivedChunk[1])
    /\ clean_rows = << >>
    /\ excluded_rows = << [reasons |-> <<"invalid_duration">>],
                          [reasons |-> <<"missing_timestamps", "invalid_duration">>] >>

---------------------------------------------------------------------------
(* Distance 0 and the speed *)

\* the place in the accepted list of the row at position j of the frame D
AcceptedPlace(D, j) == Cardinality({m \in 1..j : Reasons(D[m]) = << >>})

\* the row breaks no rule on the timestamps, the duration, the coordinates
\* or the fare
ValidBesidesDistance(row) ==
    /\ ~IsNa(Get(row, "pickup_datetime", None))
    /\ ~IsNa(Get(row, "dropoff_datetime", None))
    /\ row["pickup_datetime"].t < row["dropoff_datetime"].t
    /\ is_valid_coordinate(Get(row, "pickup_lat", None), Get(row, "pickup_lon", None))
    /\ is_valid_coordinate(Get(row, "dropoff_lat", None), Get(row, "dropoff_lon", None))
    /\ ~IsNa(Get(row, "fare_amount", None))
    /\ ~Less(Get(row, "fare_amount", None), Num(0))

\* a row of distance 0 that breaks no other rule is accepted, and its record
\* has no speed and no fare per km
ZeroDistanceAccepted ==
    (pc = "insert") =>
       LET D == DerivedChunk
       IN  \A j \in 1..Len(D) :
              (D[j]["trip_distance_km"] = Num(0) /\ ValidBesidesDistance(D[j])) =>
                 /\ Reasons(D[j]) = << >>
                 /\ AcceptedPlace(D, j) \in 1..Len(clean_rows)
                 /\ clean_rows[AcceptedPlace(D, j)]["trip_distance_km"] = Num(0)
                 /\ clean_rows[AcceptedPlace(D, j)]["trip_speed_kmh"] = None
                 /\ clean_rows[AcceptedPlace(D, j)]["fare_per_km"] = None

\* invalid_distance is in the reason string of the rows whose distance is
\* null or negative and of no other row
InvalidDistanceOnlyNullOrNegative ==
    (pc = "insert") =>
       LET D == DerivedChunk
       IN  \A j \in 1..Len(D) :
              ("invalid_distance" \in Range(Reasons(D[j])))
                 <=> (IsNa(D[j]["trip_distance_km"]) \/ Less(D[j]["trip_distance_km"], Num(0)))

\* the speed of the record is its distance over its duration in hours, and
\* at most 200
SpeedWithinLimit(rec) ==
    /\ rec["trip_speed_kmh"] # None
    /\ rec["trip_speed_kmh"]
          = Div(rec["trip_distance_km"], Div(rec["trip_duration_seconds"], Num(3600)))
    /\ Leq(rec["trip_speed_kmh"], Num(200))

\* C23 (as claimed): a row of distance 0 that satisfies every other rule is
\* accepted and handed over with trip_speed_kmh and fare_per_km null,
\* invalid_distance being attached only for a null or negative distance;
\* every accepted record of a distance above 0 has a trip_speed_kmh that is
\* not null, is distance_km / (duration_seconds / 3600) and is at most 200
C23_ZeroDistanceAndSpeed ==
    /\ ZeroDistanceAccepted
    /\ InvalidDistanceOnlyNullOrNegative
    /\ \A a \in 1..Len(clean_rows) :
          Less(Num(0), clean_rows[a]["trip_distance_km"]) => SpeedWithinLimit(clean_rows[a])

=============================================================================
